---- MODULE Spec2Model ----
(***************************************************************************)
(* PDF Visual Translator: the page lifecycle controller (App), the         *)
(* translation pipeline (translateImage / translateImageWithRetry) and the *)
(* evaluation pipeline (evaluateTranslation), as a state machine.          *)
(*                                                                         *)
(* The two pipelines await only the remote model and the retry timer and   *)
(* read or write no application state, so each is an operator of its       *)
(* arguments and of the answers the remote gives to its successive calls   *)
(* (a script).  Spec is the application: one action is one run-to-         *)
(* completion step of the JavaScript event loop, a user event handler up   *)
(* to its first await or the continuation of an await; setPages updaters   *)
(* are applied in the step that queues them.  SpecService runs one         *)
(* pipeline call on a script drawn by Init.                                *)
(***************************************************************************)
EXTENDS Integers, Sequences, FiniteSets, TLC

\* ---------------------------------------------------------------- bounds
MaxPages == 2          \* pages created by one import
MaxImports == 2        \* imports over a run
MaxBatchRuns == 2      \* startTranslation runs over a run
MaxStarts == 4         \* imports, batch runs, refinements and re-evaluations over a run
MaxRefinements == 1    \* confirmed refinement retries over a run
MaxReEvals == 1        \* handleRetryEvaluation runs over a run
MaxSegments == 2       \* segments an extraction returns
MaxFailures == 5       \* failing answers at the head of a script

\* ------------------------------------------------------ program constants
RETRIES == 3                 \* translateImageWithRetry: retries = 3
EVAL_RETRIES == 3            \* evaluateTranslation: retries = 3
PRICE_PER_1M_INPUT == 35     \* 3.50 dollars, in tenths of a dollar
PRICE_PER_1M_OUTPUT == 105   \* 10.50 dollars, in tenths of a dollar

None == <<>>
Some(x) == <<x>>

PENDING == "PENDING"
TRANSLATING == "TRANSLATING"
DONE == "DONE"
ERROR == "ERROR"
PageStatus == {PENDING, TRANSLATING, DONE, ERROR}

IDLE == "IDLE"
COMPLETED == "COMPLETED"

DIRECT == "DIRECT"
TWO_STEP == "TWO_STEP"
TranslationMode == {DIRECT, TWO_STEP}

\* ------------------------------------------------------------ the remote
\* An error thrown by a remote call: `message` is error.message as a
\* sequence of words (<<>> when the thrown value has no message), `json` the
\* words of JSON.stringify(error), `kind` what the fault really is.
E429 == [message |-> <<"429", "RESOURCE_EXHAUSTED">>, json |-> <<>>, kind |-> "rate"]
E500 == [message |-> <<"500", "INTERNAL">>, json |-> <<>>, kind |-> "server"]
E403 == [message |-> <<"403", "PERMISSION_DENIED">>, json |-> <<>>, kind |-> "auth"]
E400 == [message |-> <<"400", "INVALID_ARGUMENT">>, json |-> <<>>, kind |-> "badinput"]
ENoMsg == [message |-> <<>>, json |-> <<"code", "429">>, kind |-> "rate"]
\* thrown by translateImageWithRetry itself when the response holds no image part
ENoImage == [message |-> <<"No image data returned from Gemini.">>, json |-> <<>>, kind |-> "noimage"]
\* an audit response whose JSON does not parse (JSON.parse throws, or
\* resultJson.scores is undefined and reading a score throws a TypeError)
EParse == [message |-> <<"Unexpected token in JSON">>, json |-> <<>>, kind |-> "parse"]

RedrawErrors == {E429, E500, E403, E400, ENoMsg, ENoImage}
AuditErrors == {E429, E400, EParse}
\* the errors the remote answers with while the whole application runs
AppRedrawErrors == {E429, ENoMsg}
AppAuditErrors == {E429}

\* faults the retry is meant for: rate limit / quota exhaustion, transient server fault
TransientKinds == {"rate", "server"}

\* usageMetadata of a response, <<promptTokenCount, candidatesTokenCount>>,
\* for each of the three remote calls
ExtractMeta == <<3, 1>>
RedrawMeta == <<5, 2>>
AuditMeta == <<2, 1>>

\* The failing answers at the head of a script: k failures, the first k-1
\* with error e1 and the k-th with e2; every later call succeeds.
FailureSeqs(errors) ==
    {[j \in 1..k |-> IF j < k THEN e1 ELSE e2] : k \in 0..MaxFailures, e1 \in errors, e2 \in errors}

\* A segment of an extraction response: whether its original or translated
\* text contains a line break.
Segments == [lineBreak : BOOLEAN]
SegmentLists == UNION {[1..n -> Segments] : n \in 0..MaxSegments}
PlainSegments == [k \in 1..MaxSegments |-> [lineBreak |-> FALSE]]

\* What the extract call answers: the call throws, or it returns a list of
\* segments (the empty list also stands for a response whose JSON does not parse).
ExtractThrows == [thrown |-> TRUE, segments |-> <<>>]
ExtractAnswers == {ExtractThrows} \cup {[thrown |-> FALSE, segments |-> l] : l \in SegmentLists}
ExtractSeqs == {<<>>} \cup {<<x>> : x \in ExtractAnswers} \cup {<<x, y>> : x, y \in ExtractAnswers}
AppExtractSeqs == {<<>>, <<ExtractThrows>>}

\* attempt n of a call chain: the error it meets, or None when the call succeeds
FailureAt(fails, n) == IF n <= Len(fails) THEN Some(fails[n]) ELSE None
ExtractAt(answers, n) ==
    IF n <= Len(answers) THEN answers[n] ELSE [thrown |-> FALSE, segments |-> PlainSegments]

\* ------------------------------------------------------- cost accounting
\* Cost in units of 1e-7 dollars, so that the division by 1_000_000 is exact.
calculateCost(input, output) == input * PRICE_PER_1M_INPUT + output * PRICE_PER_1M_OUTPUT

UsageStats(meta) ==
    [inputTokens |-> meta[1], outputTokens |-> meta[2],
     totalTokens |-> meta[1] + meta[2], cost |-> calculateCost(meta[1], meta[2])]

ZeroUsage == [inputTokens |-> 0, outputTokens |-> 0, totalTokens |-> 0, cost |-> 0]

RECURSIVE SumField(_, _)
SumField(stats, f) ==
    IF stats = <<>> THEN 0 ELSE Head(stats)[f] + SumField(Tail(stats), f)

calculateTotalUsage(extraction, translation, evaluation) ==
    LET allStats == extraction \o translation \o evaluation
    IN [inputTokens |-> SumField(allStats, "inputTokens"),
        outputTokens |-> SumField(allStats, "outputTokens"),
        totalTokens |-> SumField(allStats, "totalTokens"),
        cost |-> SumField(allStats, "cost")]

AddUsage(total, u) ==
    [inputTokens |-> total.inputTokens + u.inputTokens,
     outputTokens |-> total.outputTokens + u.outputTokens,
     totalTokens |-> total.totalTokens + u.totalTokens,
     cost |-> total.cost + u.cost]

\* --------------------------------------------------------- retry control
includes(words, w) == \E k \in DOMAIN words : words[k] = w

\* const errorMessage = error.message || JSON.stringify(error)
CatchMessage(e) == IF e.message # <<>> THEN e.message ELSE e.json

isQuotaError(e) ==
    \/ includes(CatchMessage(e), "429")
    \/ includes(CatchMessage(e), "403")
    \/ includes(CatchMessage(e), "quota")

isInternalError(e) ==
    \/ includes(CatchMessage(e), "500")
    \/ includes(CatchMessage(e), "INTERNAL")

ShouldRetryTranslate_Unbounded(e, retries) == (isQuotaError(e) \/ isInternalError(e)) /\ retries >= 0

ShouldRetryTranslate(e, retries) == (isQuotaError(e) \/ isInternalError(e)) /\ retries > 0

ShouldRetryEvaluate_Unbounded(e, retries) == retries >= 0

ShouldRetryEvaluate(e, retries) == retries > 0

\* ------------------------------------------------------------ evaluation
Dimensions == {"accuracy", "fluency", "consistency", "terminology", "completeness",
               "formatPreservation", "spelling", "trademarkProtection", "redundancyRemoval"}

RECURSIVE SumScores(_, _)
SumScores(scores, dims) ==
    IF dims = {} THEN 0
    ELSE LET d == CHOOSE x \in dims : TRUE IN scores[d] + SumScores(scores, dims \ {d})

\* variant of the six-dimension audit: the mean of six of the scores
AverageScore_SixDimensions(scores) ==
    LET six == {"accuracy", "fluency", "consistency", "terminology", "completeness",
                "formatPreservation"}
    IN (SumScores(scores, six) * 10 + 3) \div 6

\* parseFloat((sum / 9).toFixed(1)), in tenths
AverageScore(scores) == (SumScores(scores, Dimensions) * 20 + 9) \div 18

\* what the audit call answers: the scores, the reason and the suggestions
AuditAnswer ==
    [scores |-> [d \in Dimensions |-> IF d = "accuracy" THEN 10 ELSE 7],
     reason |-> "footer not translated", suggestions |-> "missing footer text"]

FallbackResult ==
    [scores |-> [d \in Dimensions |-> 0], averageScore |-> 0,
     reason |-> "evaluation service failure", suggestions |-> ""]

\* The usage array evaluateTranslation returns: "the full array [Eval 1, Eval 2, ...]"
EvalUsageResult(previous, rec) == previous \o <<rec>>

\* ----------------------------------------------------------------- state
VARIABLES
    pages,            \* useState<PageData[]>
    appStatus,        \* useState<ProcessingStatus>
    targetLanguage,   \* useState<string>; "" when none is selected
    apiKeyReady,      \* useState<boolean>
    globalError,      \* useState<string | null>, None for null
    refiningPage,     \* useState<PageData | null>, None for null
    translationMode,  \* the mode passed to translateImage
    procs,            \* activations of startTranslation / handleConfirmRefinement, each awaiting translateImage
    evals,            \* pending evaluateTranslation promises, each with its completion callback
    imports,          \* number of imports so far
    batchRuns,        \* number of startTranslation runs so far
    refinements,      \* number of confirmed refinements so far
    reEvals,          \* number of handleRetryEvaluation runs so far
    imgCounter,       \* number of images the redraw call has produced
    crashed,          \* a state updater threw: React unmounted the application
    call,             \* SpecService: the script of the translateImage call, None in Spec
    ret               \* SpecService: the last pipeline call settled, with its script; None before

vars == <<pages, appStatus, targetLanguage, apiKeyReady, globalError, refiningPage,
          translationMode, procs, evals, imports, batchRuns, refinements, reEvals,
          imgCounter, crashed, call, ret>>

SetAt(s, i, x) == [s EXCEPT ![i] = x]
RemoveAt(s, i) == SubSeq(s, 1, i - 1) \o SubSeq(s, i + 1, Len(s))

starts == imports + batchRuns + refinements + reEvals
hasPages == Len(pages) > 0
isTranslating == appStatus = TRANSLATING
modalOpen == refiningPage # None

NewPage(pn, img) ==
    [pageNumber |-> pn, originalImage |-> img, translatedImage |-> 0, status |-> PENDING,
     errorMessage |-> None, usage |-> None, evaluation |-> None, isEvaluating |-> FALSE,
     promptUsed |-> None, extractedSegments |-> None,
     evaluatedImage |-> 0]      \* history: the image the stored evaluation was computed for

Init ==
    /\ pages = <<>>
    /\ appStatus = IDLE
    /\ targetLanguage = ""
    /\ apiKeyReady = FALSE
    /\ globalError = None
    /\ refiningPage = None
    /\ translationMode \in TranslationMode
    /\ procs = <<>>
    /\ evals = <<>>
    /\ imports = 0
    /\ batchRuns = 0
    /\ refinements = 0
    /\ reEvals = 0
    /\ imgCounter = 0
    /\ crashed = FALSE
    /\ call = None
    /\ ret = None

\* --------------------------------------------------- translation pipeline
\* `Segment k [..]: "original" => "translated"`, as the lines of text it takes:
\* a line break inside a text is copied as it is
SegmentLines(k, segment) ==
    IF segment.lineBreak
    THEN <<[seg |-> k, text |-> "original, up to its line break"],
           [seg |-> k, text |-> "rest of the original => translated"]>>
    ELSE <<[seg |-> k, text |-> "original => translated"]>>

\* segments.map((s, i) => ...).join('\n'), as a sequence of lines
RECURSIVE JoinLines(_, _)
JoinLines(segments, k) ==
    IF k > Len(segments) THEN <<>>
    ELSE SegmentLines(k, segments[k]) \o JoinLines(segments, k + 1)

mappingString(segments) == JoinLines(segments, 1)

ExtractionFailedText == <<[seg |-> 0, text |-> "Extraction failed. Proceed with direct translation."]>>

\* Step 1 of an attempt: in TWO_STEP mode the extract call, whose failure is
\* caught and replaced by the failure text; otherwise nothing.
ExtractStep(mode, answer) ==
    IF mode # TWO_STEP THEN [mapping |-> <<>>, extractionUsage |-> None, extracts |-> 0]
    ELSE IF answer.thrown THEN [mapping |-> ExtractionFailedText, extractionUsage |-> None, extracts |-> 1]
    ELSE [mapping |-> mappingString(answer.segments),
          extractionUsage |-> Some(UsageStats(ExtractMeta)), extracts |-> 1]

\* One invocation of translateImageWithRetry, the n-th of its chain, on the
\* script <<extract answers, redraw failures>>.  It yields how the chain
\* settles, with the numbers of redraw calls, extract calls and delays made
\* from this invocation on.
RECURSIVE translateImageWithRetry(_, _, _, _)

\* variant that keeps a usage record for every failed redraw call
RedrawStep_RecordsFailures(mode, retries, script, n, step1) ==
    LET thrown == FailureAt(script.redraw, n)
    IN IF thrown = None
       THEN [ok |-> TRUE, err |-> None, mapping |-> step1.mapping,
             extractionUsage |-> step1.extractionUsage,
             translationUsage |-> Some(UsageStats(RedrawMeta)),
             calls |-> 1, extracts |-> step1.extracts, delays |-> 0]
       ELSE IF ShouldRetryTranslate(thrown[1], retries)
       THEN LET later == translateImageWithRetry(mode, retries - 1, script, n + 1)
            IN [later EXCEPT !.calls = @ + 1, !.extracts = @ + step1.extracts, !.delays = @ + 1,
                             !.translationUsage = IF later.ok THEN <<ZeroUsage>> \o @ ELSE @]
       ELSE [ok |-> FALSE, err |-> thrown, mapping |-> <<>>,
             extractionUsage |-> None, translationUsage |-> None,
             calls |-> 1, extracts |-> step1.extracts, delays |-> 0]

\* variant whose catch block repeats the redraw call alone, with the mapping
\* of the first attempt
RECURSIVE RedrawStep_RetriesRedrawOnly(_, _, _, _, _)
RedrawStep_RetriesRedrawOnly(mode, retries, script, n, step1) ==
    LET thrown == FailureAt(script.redraw, n)
    IN IF thrown = None
       THEN [ok |-> TRUE, err |-> None, mapping |-> step1.mapping,
             extractionUsage |-> step1.extractionUsage,
             translationUsage |-> Some(UsageStats(RedrawMeta)),
             calls |-> 1, extracts |-> step1.extracts, delays |-> 0]
       ELSE IF ShouldRetryTranslate(thrown[1], retries)
       THEN LET later == RedrawStep_RetriesRedrawOnly(mode, retries - 1, script, n + 1,
                                                      [step1 EXCEPT !.extracts = 0])
            IN [later EXCEPT !.calls = @ + 1, !.extracts = @ + step1.extracts, !.delays = @ + 1]
       ELSE [ok |-> FALSE, err |-> thrown, mapping |-> <<>>,
             extractionUsage |-> None, translationUsage |-> None,
             calls |-> 1, extracts |-> step1.extracts, delays |-> 0]

\* the redraw call in its try block, and the catch block: after a delay the
\* function calls itself with retries - 1, or it rethrows
RedrawStep(mode, retries, script, n, step1) ==
    LET thrown == FailureAt(script.redraw, n)
    IN IF thrown = None
       THEN [ok |-> TRUE, err |-> None, mapping |-> step1.mapping,
             extractionUsage |-> step1.extractionUsage,
             translationUsage |-> Some(UsageStats(RedrawMeta)),
             calls |-> 1, extracts |-> step1.extracts, delays |-> 0]
       ELSE IF ShouldRetryTranslate(thrown[1], retries)
       THEN LET later == translateImageWithRetry(mode, retries - 1, script, n + 1)
            IN [later EXCEPT !.calls = @ + 1, !.extracts = @ + step1.extracts, !.delays = @ + 1]
       ELSE [ok |-> FALSE, err |-> thrown, mapping |-> <<>>,
             extractionUsage |-> None, translationUsage |-> None,
             calls |-> 1, extracts |-> step1.extracts, delays |-> 0]

\* variant without the try/catch around the extract call
translateImageWithRetry_ExtractAborts(mode, retries, script, n) ==
    IF mode = TWO_STEP /\ ExtractAt(script.extract, n).thrown
    THEN [ok |-> FALSE, err |-> Some(E500), mapping |-> <<>>,
          extractionUsage |-> None, translationUsage |-> None,
          calls |-> 0, extracts |-> 1, delays |-> 0]
    ELSE RedrawStep(mode, retries, script, n, ExtractStep(mode, ExtractAt(script.extract, n)))

translateImageWithRetry(mode, retries, script, n) ==
    RedrawStep(mode, retries, script, n, ExtractStep(mode, ExtractAt(script.extract, n)))

\* translateImage(...): translateImageWithRetry with retries = 3
translateImage(mode, script) == translateImageWithRetry(mode, RETRIES, script, 1)

\* the prompt of the redraw call
BuildPrompt(mode, mapping, feedback) ==
    [directive |-> IF mode = TWO_STEP THEN "mapping" ELSE "direct",
     mapping |-> IF mode = TWO_STEP THEN mapping ELSE <<>>,
     feedback |-> feedback]

\* the ledger a successful translateImage returns: the records of this call
\* appended to the ledger passed in, and the total recomputed
MergeUsage(prevUsage, extractionUsage, translationUsage) ==
    LET prev == IF prevUsage = None
                THEN [extraction |-> <<>>, translation |-> <<>>, evaluation |-> <<>>]
                ELSE [extraction |-> prevUsage[1].extraction,
                      translation |-> prevUsage[1].translation,
                      evaluation |-> prevUsage[1].evaluation]
        ext == prev.extraction \o extractionUsage
        tra == prev.translation \o translationUsage
    IN [extraction |-> ext, translation |-> tra, evaluation |-> prev.evaluation,
        total |-> calculateTotalUsage(ext, tra, prev.evaluation)]

\* the value a successful translateImage resolves with
TranslateResult(mode, feedback, prevUsage, settled, img) ==
    [image |-> img,
     usage |-> MergeUsage(prevUsage, settled.extractionUsage, settled.translationUsage),
     promptUsed |-> BuildPrompt(mode, settled.mapping, feedback),
     extractedSegments |-> IF settled.mapping = <<>> THEN None ELSE Some(settled.mapping)]

TranslateScripts ==
    {[extract |-> x, redraw |-> f] : x \in ExtractSeqs, f \in FailureSeqs(RedrawErrors)}
AppTranslateScripts ==
    {[extract |-> x, redraw |-> f] : x \in AppExtractSeqs, f \in FailureSeqs(AppRedrawErrors)}

\* ---------------------------------------------------- evaluation pipeline
\* One invocation of evaluateTranslation, the n-th of its chain, on the audit
\* failures of the script: it never rejects, after the last retry it
\* resolves with the fallback.
RECURSIVE evaluateTranslationRetry(_, _, _)

\* the value the try block returns
AuditReturn ==
    [ok |-> TRUE,
     result |-> [scores |-> AuditAnswer.scores,
                 averageScore |-> AverageScore(AuditAnswer.scores),
                 reason |-> AuditAnswer.reason,
                 suggestions |-> AuditAnswer.suggestions],
     usage |-> UsageStats(AuditMeta), calls |-> 1, delays |-> 0]

\* variant whose catch block rethrows once the retries are used up
evaluateTranslationRetry_Rethrows(retries, fails, n) ==
    LET thrown == FailureAt(fails, n)
    IN IF thrown = None THEN AuditReturn
       ELSE IF ShouldRetryEvaluate(thrown[1], retries)
       THEN LET later == evaluateTranslationRetry(retries - 1, fails, n + 1)
            IN [later EXCEPT !.calls = @ + 1, !.delays = @ + 1]
       ELSE [ok |-> FALSE, result |-> FallbackResult, usage |-> ZeroUsage, calls |-> 1, delays |-> 0]

\* `ok` tells a resolved promise from a rejected one
evaluateTranslationRetry(retries, fails, n) ==
    LET thrown == FailureAt(fails, n)
    IN IF thrown = None THEN AuditReturn
       ELSE IF ShouldRetryEvaluate(thrown[1], retries)
       THEN LET later == evaluateTranslationRetry(retries - 1, fails, n + 1)
            IN [later EXCEPT !.calls = @ + 1, !.delays = @ + 1]
       ELSE [ok |-> TRUE, result |-> FallbackResult, usage |-> ZeroUsage, calls |-> 1, delays |-> 0]

AuditScripts == FailureSeqs(AuditErrors)
AppAuditScripts == FailureSeqs(AppAuditErrors)

\* What the application can see of a settled call, without the call counts:
\* the outcomes over the scripts of the application run.
Visible(settled) ==
    [ok |-> settled.ok, err |-> settled.err, mapping |-> settled.mapping,
     extractionUsage |-> settled.extractionUsage, translationUsage |-> settled.translationUsage]

TranslateSettlements ==
    [m \in TranslationMode |-> {Visible(translateImage(m, sc)) : sc \in AppTranslateScripts}]

EvaluateSettlements ==
    {[result |-> o.result, usage |-> o.usage] :
        o \in {x \in {evaluateTranslationRetry(EVAL_RETRIES, f, 1) : f \in AppAuditScripts} : x.ok}}

\* ------------------------------------------- page lifecycle controller
TranslateFailedText == <<"fan yi shi bai">>     \* the batch's text for an error without a message
RefineFailedText == <<"you hua shi bai">>       \* the refinement's text for an error without a message

\* { ...p, ...patch }
Spread(p, patch) == [f \in DOMAIN p |-> IF f \in DOMAIN patch THEN patch[f] ELSE p[f]]

\* setPages(prev => prev.map(p => p.pageNumber === pn ? { ...p, ...patch } : p))
PatchPage(ps, pn, patch) ==
    [k \in DOMAIN ps |-> IF ps[k].pageNumber = pn THEN Spread(ps[k], patch) ELSE ps[k]]

\* variant that leaves the page TRANSLATING until its evaluation arrives
StoreTranslation_AwaitsAudit(result) ==
    [translatedImage |-> result.image,
     usage |-> Some(result.usage),
     promptUsed |-> Some(result.promptUsed),
     extractedSegments |-> result.extractedSegments,
     isEvaluating |-> TRUE]

\* variant that marks the page DONE without storing the usage ledger
StoreTranslation_WithoutUsage(result) ==
    [translatedImage |-> result.image,
     promptUsed |-> Some(result.promptUsed),
     extractedSegments |-> result.extractedSegments,
     status |-> DONE,
     isEvaluating |-> TRUE]

\* variant that stores the translated image over the original one too
StoreTranslation_OverOriginal(result) ==
    [originalImage |-> result.image,
     translatedImage |-> result.image,
     usage |-> Some(result.usage),
     promptUsed |-> Some(result.promptUsed),
     extractedSegments |-> result.extractedSegments,
     status |-> DONE,
     isEvaluating |-> TRUE]

\* the patch that stores a result of translateImage
StoreTranslation(result) ==
    [translatedImage |-> result.image,
     usage |-> Some(result.usage),
     promptUsed |-> Some(result.promptUsed),
     extractedSegments |-> result.extractedSegments,
     status |-> DONE,
     isEvaluating |-> TRUE]

StoreError_Generic(e, fallbackText) ==
    [status |-> ERROR, errorMessage |-> Some(fallbackText)]

\* the patch of the catch block
StoreError(e, fallbackText) ==
    [status |-> ERROR,
     errorMessage |-> Some(IF e.message # <<>> THEN e.message ELSE fallbackText)]

\* an activation awaiting translateImage for the head of its queue
AwaitTranslate(kind, queue, mode, feedback, prevUsage) ==
    [kind |-> kind, queue |-> queue, mode |-> mode, feedback |-> feedback, prevUsage |-> prevUsage]

\* a pending evaluateTranslation(...) with the callback of its caller
evaluateTranslation(page, img, origin, previous) ==
    [pageNumber |-> page.pageNumber, originalImage |-> page.originalImage,
     translatedImage |-> img, origin |-> origin, previous |-> previous]

\* what follows the try/catch around `await translateImage`: the batch loop
\* goes on to its next page, or the handler ends
ContinueAfter(i, ps) ==
    LET proc == procs[i]
        rest == Tail(proc.queue)
    IN IF proc.kind = "batch" /\ rest # <<>>
       THEN /\ pages' = PatchPage(ps, Head(rest).pageNumber, [status |-> TRANSLATING])
            /\ procs' = SetAt(procs, i, AwaitTranslate("batch", rest, proc.mode, <<>>, None))
            /\ appStatus' = appStatus
       ELSE /\ pages' = ps
            /\ procs' = RemoveAt(procs, i)
            /\ appStatus' = IF proc.kind = "batch" THEN COMPLETED ELSE appStatus

\* translateImage resolved: the result is stored and the evaluation is fired
OnTranslateOK(i, settled) ==
    LET proc == procs[i]
        page == Head(proc.queue)
        result == TranslateResult(proc.mode, proc.feedback, proc.prevUsage, settled, imgCounter + 1)
        previous == IF proc.kind = "retry" /\ proc.prevUsage # None
                    THEN proc.prevUsage[1].evaluation ELSE <<>>
    IN /\ imgCounter' = imgCounter + 1
       /\ evals' = Append(evals, evaluateTranslation(page, result.image, proc.kind, previous))
       /\ ContinueAfter(i, PatchPage(pages, page.pageNumber, StoreTranslation(result)))

\* variant whose catch block fires the evaluation of the page as well
OnTranslateError_Audits(i, e) ==
    LET proc == procs[i]
        page == Head(proc.queue)
        text == IF proc.kind = "batch" THEN TranslateFailedText ELSE RefineFailedText
    IN /\ ContinueAfter(i, PatchPage(pages, page.pageNumber, StoreError(e, text)))
       /\ evals' = Append(evals, evaluateTranslation(page, 0, proc.kind, <<>>))
       /\ UNCHANGED imgCounter

\* translateImage rejected with e
OnTranslateError(i, e) ==
    LET proc == procs[i]
        page == Head(proc.queue)
        text == IF proc.kind = "batch" THEN TranslateFailedText ELSE RefineFailedText
    IN /\ ContinueAfter(i, PatchPage(pages, page.pageNumber, StoreError(e, text)))
       /\ UNCHANGED <<imgCounter, evals>>

\* the awaited translateImage resolves
TranslateResolves(i) ==
    /\ ~crashed
    /\ i \in DOMAIN procs
    /\ \E settled \in TranslateSettlements[procs[i].mode] :
          settled.ok /\ OnTranslateOK(i, settled)
    /\ UNCHANGED <<targetLanguage, apiKeyReady, globalError, refiningPage, translationMode,
                   imports, batchRuns, refinements, reEvals, crashed, call, ret>>

\* the awaited translateImage rejects
TranslateRejects(i) ==
    /\ ~crashed
    /\ i \in DOMAIN procs
    /\ \E settled \in TranslateSettlements[procs[i].mode] :
          ~settled.ok /\ OnTranslateError(i, settled.err[1])
    /\ UNCHANGED <<targetLanguage, apiKeyReady, globalError, refiningPage, translationMode,
                   imports, batchRuns, refinements, reEvals, crashed, call, ret>>

\* -------------------------------------------------- evaluation callbacks
\* the .then callback of startTranslation
MergeEvaluationBatch(ps, ev, evalResult, evalUsage) ==
    [k \in DOMAIN ps |->
        IF ps[k].pageNumber # ev.pageNumber \/ ps[k].usage = None THEN ps[k]
        ELSE LET u == ps[k].usage[1]
             IN [ps[k] EXCEPT !.evaluation = Some(evalResult),
                              !.evaluatedImage = ev.translatedImage,
                              !.usage = Some([u EXCEPT !.evaluation = evalUsage,
                                                       !.total = calculateTotalUsage(u.extraction, u.translation, evalUsage)]),
                              !.isEvaluating = FALSE]]

\* the .then callback of handleConfirmRefinement: no test of the page number
MergeEvaluationRefinement(ps, ev, evalResult, evalUsage) ==
    [k \in DOMAIN ps |->
        LET u == ps[k].usage[1]
        IN [ps[k] EXCEPT !.evaluation = Some(evalResult),
                         !.evaluatedImage = ev.translatedImage,
                         !.usage = Some([u EXCEPT !.evaluation = evalUsage,
                                                  !.total = calculateTotalUsage(u.extraction, u.translation, evalUsage)]),
                         !.isEvaluating = FALSE]]

\* the continuation of handleRetryEvaluation: the evaluation detail is
\* replaced by the new record and the record is added to the total
MergeEvaluationRetry(ps, ev, evalResult, evalUsage) ==
    [k \in DOMAIN ps |->
        IF ps[k].pageNumber # ev.pageNumber THEN ps[k]
        ELSE LET rec == evalUsage[Len(evalUsage)]
             IN [ps[k] EXCEPT !.evaluation = Some(evalResult),
                              !.evaluatedImage = ev.translatedImage,
                              !.usage = IF ps[k].usage = None THEN None
                                        ELSE Some([ps[k].usage[1] EXCEPT !.evaluation = <<rec>>,
                                                                         !.total = AddUsage(@, rec)]),
                              !.isEvaluating = FALSE]]

\* evaluateTranslation resolved with {result, usage}
OnEvaluated(j, evalResult, evalUsage) ==
    LET ev == evals[j]
    IN /\ evals' = RemoveAt(evals, j)
       /\ CASE ev.origin = "batch" ->
                 /\ pages' = MergeEvaluationBatch(pages, ev, evalResult, evalUsage)
                 /\ crashed' = crashed
            [] ev.origin = "retry" ->
                 \* p.usage.extraction of a page without usage throws inside the updater
                 IF \E k \in DOMAIN pages : pages[k].usage = None
                 THEN /\ crashed' = TRUE
                      /\ pages' = pages
                 ELSE /\ pages' = MergeEvaluationRefinement(pages, ev, evalResult, evalUsage)
                      /\ crashed' = crashed
            [] OTHER ->
                 /\ pages' = MergeEvaluationRetry(pages, ev, evalResult, evalUsage)
                 /\ crashed' = crashed

\* variant in which the callback waits until no translation is awaited
EvaluateResolves_AfterTranslations(j) ==
    /\ ~crashed
    /\ procs = <<>>
    /\ j \in DOMAIN evals
    /\ \E o \in EvaluateSettlements :
          OnEvaluated(j, o.result, EvalUsageResult(evals[j].previous, o.usage))
    /\ UNCHANGED <<appStatus, targetLanguage, apiKeyReady, globalError, refiningPage,
                   translationMode, procs, imports, batchRuns, refinements, reEvals,
                   imgCounter, call, ret>>

\* evaluateTranslation resolves (it never rejects): the callback runs
EvaluateResolves(j) ==
    /\ ~crashed
    /\ j \in DOMAIN evals
    /\ \E o \in EvaluateSettlements :
          OnEvaluated(j, o.result, EvalUsageResult(evals[j].previous, o.usage))
    /\ UNCHANGED <<appStatus, targetLanguage, apiKeyReady, globalError, refiningPage,
                   translationMode, procs, imports, batchRuns, refinements, reEvals,
                   imgCounter, call, ret>>

\* ------------------------------------------------------- user operations
\* Every control is rendered only once apiKeyReady holds; the refinement
\* modal covers the page while it is open.
CanClick == ~crashed /\ apiKeyReady /\ ~modalOpen

HandleSelectKey ==
    /\ ~crashed
    /\ ~apiKeyReady
    /\ apiKeyReady' = TRUE
    /\ UNCHANGED <<pages, appStatus, targetLanguage, globalError, refiningPage, translationMode,
                   procs, evals, imports, batchRuns, refinements, reEvals, imgCounter,
                   crashed, call, ret>>

\* handleFileUpload / handleConfirmImport: the upload area is rendered while
\* there are no pages; n pages are created, numbered from 1
HandleConfirmImport(n) ==
    /\ CanClick
    /\ ~hasPages
    /\ imports < MaxImports /\ starts < MaxStarts
    /\ imports' = imports + 1
    /\ pages' = [k \in 1..n |-> NewPage(k, 10 * (imports + 1) + k)]
    /\ appStatus' = IDLE
    /\ UNCHANGED <<targetLanguage, apiKeyReady, globalError, refiningPage, translationMode,
                   procs, evals, batchRuns, refinements, reEvals, imgCounter, crashed, call, ret>>

SetTargetLanguage(lang) ==
    /\ CanClick
    /\ hasPages
    /\ ~isTranslating
    /\ targetLanguage # lang
    /\ targetLanguage' = lang
    /\ UNCHANGED <<pages, appStatus, apiKeyReady, globalError, refiningPage, translationMode,
                   procs, evals, imports, batchRuns, refinements, reEvals, imgCounter,
                   crashed, call, ret>>

HandleReset ==
    /\ CanClick
    /\ hasPages
    /\ pages' = <<>>
    /\ appStatus' = IDLE
    /\ targetLanguage' = ""
    /\ globalError' = None
    /\ UNCHANGED <<apiKeyReady, refiningPage, translationMode, procs, evals, imports,
                   batchRuns, refinements, reEvals, imgCounter, crashed, call, ret>>

\* handleDownload: the download menu is rendered once a page is DONE; the
\* finally block leaves the application status IDLE.  While the file is
\* generated the status is CONVERTING_PDF, under which every control is
\* rendered as under IDLE; it is not told apart from IDLE.
HandleDownload ==
    /\ CanClick
    /\ \E k \in DOMAIN pages : pages[k].status = DONE /\ pages[k].translatedImage # 0
    /\ appStatus' = IDLE
    /\ UNCHANGED <<pages, targetLanguage, apiKeyReady, globalError, refiningPage,
                   translationMode, procs, evals, imports, batchRuns, refinements, reEvals,
                   imgCounter, crashed, call, ret>>

\* variant that starts every page's translation at once (Promise.all over the pages)
StartTranslation_AllAtOnce ==
    /\ CanClick
    /\ hasPages /\ ~isTranslating /\ appStatus # COMPLETED
    /\ targetLanguage # ""
    /\ batchRuns < MaxBatchRuns /\ starts < MaxStarts
    /\ batchRuns' = batchRuns + 1
    /\ globalError' = None
    /\ LET pagesToTranslate == SelectSeq(pages, LAMBDA p : p.status # DONE)
           queue == [k \in DOMAIN pagesToTranslate |->
                        [pageNumber |-> pagesToTranslate[k].pageNumber,
                         originalImage |-> pagesToTranslate[k].originalImage]]
       IN IF queue = <<>>
          THEN /\ appStatus' = COMPLETED
               /\ UNCHANGED <<pages, procs>>
          ELSE /\ appStatus' = TRANSLATING
               /\ pages' = [k \in DOMAIN pages |->
                               IF pages[k].status # DONE THEN Spread(pages[k], [status |-> TRANSLATING])
                               ELSE pages[k]]
               /\ procs' = procs \o [k \in DOMAIN queue |->
                                        AwaitTranslate("batch", <<queue[k]>>, translationMode, <<>>, None)]
    /\ UNCHANGED <<targetLanguage, apiKeyReady, refiningPage, translationMode, evals, imports,
                   refinements, reEvals, imgCounter, crashed, call, ret>>

NoLanguageText == "qing xuan ze mu biao yu yan"     \* setGlobalError: select a target language
NoApiKeyText == "qing xian xuan ze API Key"         \* setGlobalError: select an API key first

\* variant without the two guards at the head of the handler
startTranslation_Unguarded ==
    /\ globalError' = None
    /\ LET pagesToTranslate == SelectSeq(pages, LAMBDA p : p.status # DONE)
           queue == [k \in DOMAIN pagesToTranslate |->
                        [pageNumber |-> pagesToTranslate[k].pageNumber,
                         originalImage |-> pagesToTranslate[k].originalImage]]
       IN IF queue = <<>>
          THEN /\ appStatus' = COMPLETED
               /\ UNCHANGED <<pages, procs>>
          ELSE /\ appStatus' = TRANSLATING
               /\ pages' = PatchPage(pages, Head(queue).pageNumber, [status |-> TRANSLATING])
               /\ procs' = Append(procs, AwaitTranslate("batch", queue, translationMode, <<>>, None))

\* variant that takes every page, translated or not
startTranslation_AllPages ==
    /\ globalError' = None
    /\ LET queue == [k \in DOMAIN pages |->
                        [pageNumber |-> pages[k].pageNumber,
                         originalImage |-> pages[k].originalImage]]
       IN IF queue = <<>>
          THEN /\ appStatus' = COMPLETED
               /\ UNCHANGED <<pages, procs>>
          ELSE /\ appStatus' = TRANSLATING
               /\ pages' = PatchPage(pages, Head(queue).pageNumber, [status |-> TRANSLATING])
               /\ procs' = Append(procs, AwaitTranslate("batch", queue, translationMode, <<>>, None))

\* the handler, up to its first await
startTranslation ==
    IF targetLanguage = ""
    THEN /\ globalError' = Some(NoLanguageText)
         /\ UNCHANGED <<pages, appStatus, procs>>
    ELSE IF ~apiKeyReady
    THEN /\ globalError' = Some(NoApiKeyText)
         /\ UNCHANGED <<pages, appStatus, procs>>
    ELSE /\ globalError' = None
         /\ LET pagesToTranslate == SelectSeq(pages, LAMBDA p : p.status # DONE)
                queue == [k \in DOMAIN pagesToTranslate |->
                             [pageNumber |-> pagesToTranslate[k].pageNumber,
                              originalImage |-> pagesToTranslate[k].originalImage]]
            IN IF queue = <<>>
               THEN /\ appStatus' = COMPLETED
                    /\ UNCHANGED <<pages, procs>>
               ELSE /\ appStatus' = TRANSLATING
                    /\ pages' = PatchPage(pages, Head(queue).pageNumber, [status |-> TRANSLATING])
                    /\ procs' = Append(procs, AwaitTranslate("batch", queue, translationMode, <<>>, None))

\* the start button is rendered while hasPages && !isTranslating &&
\* appStatus !== COMPLETED, and enabled once a target language is selected
StartTranslation ==
    /\ CanClick
    /\ hasPages /\ ~isTranslating /\ appStatus # COMPLETED
    /\ targetLanguage # ""
    /\ batchRuns < MaxBatchRuns /\ starts < MaxStarts
    /\ batchRuns' = batchRuns + 1
    /\ startTranslation
    /\ UNCHANGED <<targetLanguage, apiKeyReady, refiningPage, translationMode, evals, imports,
                   refinements, reEvals, imgCounter, crashed, call, ret>>

\* the retry button of a page card is rendered for a DONE or ERROR page
HandleRetryPageClick(pn) ==
    /\ CanClick
    /\ refinements < MaxRefinements /\ starts < MaxStarts
    /\ \E k \in DOMAIN pages :
          /\ pages[k].pageNumber = pn
          /\ pages[k].status \in {DONE, ERROR}
          /\ refiningPage' = Some(pages[k])
    /\ UNCHANGED <<pages, appStatus, targetLanguage, apiKeyReady, globalError, translationMode,
                   procs, evals, imports, batchRuns, refinements, reEvals, imgCounter,
                   crashed, call, ret>>

CancelRefinement ==
    /\ ~crashed
    /\ modalOpen
    /\ refiningPage' = None
    /\ UNCHANGED <<pages, appStatus, targetLanguage, apiKeyReady, globalError, translationMode,
                   procs, evals, imports, batchRuns, refinements, reEvals, imgCounter,
                   crashed, call, ret>>

UserPrompts == {"", "use formal tone"}

CombinedFeedback(previousSuggestions, userPrompt) ==
    <<"Automated Suggestions:", previousSuggestions, ". User Input:", userPrompt>>

HandleConfirmRefinement(userPrompt) ==
    /\ ~crashed
    /\ refiningPage # None /\ targetLanguage # "" /\ apiKeyReady
    /\ LET page == refiningPage[1]
           previousSuggestions == IF page.evaluation = None THEN "" ELSE page.evaluation[1].suggestions
       IN /\ pages' = PatchPage(pages, page.pageNumber,
                                [status |-> TRANSLATING, errorMessage |-> None])
          /\ procs' = Append(procs, AwaitTranslate("retry",
                                <<[pageNumber |-> page.pageNumber, originalImage |-> page.originalImage]>>,
                                translationMode, CombinedFeedback(previousSuggestions, userPrompt),
                                page.usage))
    /\ refiningPage' = None
    /\ refinements' = refinements + 1
    /\ UNCHANGED <<appStatus, targetLanguage, apiKeyReady, globalError, translationMode, evals,
                   imports, batchRuns, reEvals, imgCounter, crashed, call, ret>>

HandleRetryEvaluation(pn) ==
    /\ CanClick
    /\ reEvals < MaxReEvals /\ starts < MaxStarts
    /\ \E k \in DOMAIN pages :
          /\ pages[k].pageNumber = pn
          /\ pages[k].translatedImage # 0
          /\ evals' = Append(evals, evaluateTranslation(pages[k], pages[k].translatedImage, "reeval", <<>>))
    /\ pages' = PatchPage(pages, pn, [isEvaluating |-> TRUE])
    /\ reEvals' = reEvals + 1
    /\ UNCHANGED <<appStatus, targetLanguage, apiKeyReady, globalError, refiningPage,
                   translationMode, procs, imports, batchRuns, refinements, imgCounter,
                   crashed, call, ret>>

\* ------------------------------------------------------------------ Next
Next ==
    \/ HandleSelectKey
    \/ \E n \in 1..MaxPages : HandleConfirmImport(n)
    \/ SetTargetLanguage("Spanish")
    \/ HandleReset
    \/ HandleDownload
    \/ StartTranslation
    \/ \E pn \in 1..MaxPages : HandleRetryPageClick(pn)
    \/ CancelRefinement
    \/ \E up \in UserPrompts : HandleConfirmRefinement(up)
    \/ \E pn \in 1..MaxPages : HandleRetryEvaluation(pn)
    \/ \E i \in 1..Len(procs) : TranslateResolves(i)
    \/ \E i \in 1..Len(procs) : TranslateRejects(i)
    \/ \E j \in 1..Len(evals) : EvaluateResolves(j)

Spec == Init /\ [][Next]_vars

\* Every remote call eventually returns: an awaited translateImage settles
\* and a pending evaluateTranslation resolves.
RemoteReturns ==
    /\ WF_vars(\E i \in 1..Len(procs) : TranslateResolves(i) \/ TranslateRejects(i))
    /\ WF_vars(\E j \in 1..Len(evals) : EvaluateResolves(j))

SpecLive == Init /\ [][Next]_vars /\ RemoteReturns

\* ----------------------------------------------------- one scripted page
\* SpecService: a one-page document whose batch translation has just been
\* started, the remote answering the pipeline's calls by a script.
ScriptedPage == [pageNumber |-> 1, originalImage |-> 11]

InitService ==
    /\ pages = <<[NewPage(ScriptedPage.pageNumber, ScriptedPage.originalImage) EXCEPT !.status = TRANSLATING]>>
    /\ appStatus = TRANSLATING
    /\ targetLanguage = "Spanish"
    /\ apiKeyReady = TRUE
    /\ globalError = None
    /\ refiningPage = None
    /\ translationMode \in TranslationMode
    /\ procs = <<AwaitTranslate("batch", <<ScriptedPage>>, translationMode, <<>>, None)>>
    /\ evals = <<>>
    /\ imports = 1
    /\ batchRuns = 1
    /\ refinements = 0
    /\ reEvals = 0
    /\ imgCounter = 0
    /\ crashed = FALSE
    /\ call \in TranslateScripts
    /\ ret = None

\* translateImage settles as the script has it
ScriptedTranslate ==
    /\ procs # <<>>
    /\ LET settled == translateImage(procs[1].mode, call)
       IN /\ IF settled.ok THEN OnTranslateOK(1, Visible(settled))
                           ELSE OnTranslateError(1, settled.err[1])
          /\ ret' = Some([op |-> "translateImage", script |-> call, settled |-> settled])
    /\ UNCHANGED <<targetLanguage, apiKeyReady, globalError, refiningPage, translationMode,
                   imports, batchRuns, refinements, reEvals, crashed, call>>

\* evaluateTranslation resolves as an audit script has it
ScriptedEvaluate ==
    /\ evals # <<>>
    /\ \E f \in AuditScripts :
          LET settled == evaluateTranslationRetry(EVAL_RETRIES, f, 1)
          IN /\ IF settled.ok
                THEN OnEvaluated(1, settled.result, EvalUsageResult(evals[1].previous, settled.usage))
                ELSE /\ evals' = RemoveAt(evals, 1)       \* no catch: the .then callback is not run
                     /\ UNCHANGED <<pages, crashed>>
             /\ ret' = Some([op |-> "evaluateTranslation", script |-> f, settled |-> settled])
    /\ UNCHANGED <<appStatus, targetLanguage, apiKeyReady, globalError, refiningPage,
                   translationMode, procs, imports, batchRuns, refinements, reEvals,
                   imgCounter, call>>

NextService == ScriptedTranslate \/ ScriptedEvaluate

SpecService == InitService /\ [][NextService]_vars

\* ------------------------------------------------- the average of scores
\* SpecScores: the average evaluateTranslation computes from the scores of an
\* audit response, each score one of the levels.
ScoreLevels == {0, 7, 10}
ScoreSets == [Dimensions -> ScoreLevels]

InitScores ==
    /\ pages = <<>>
    /\ appStatus = IDLE
    /\ targetLanguage = "Spanish"
    /\ apiKeyReady = TRUE
    /\ globalError = None
    /\ refiningPage = None
    /\ translationMode = DIRECT
    /\ procs = <<>>
    /\ evals = <<>>
    /\ imports = 0
    /\ batchRuns = 0
    /\ refinements = 0
    /\ reEvals = 0
    /\ imgCounter = 0
    /\ crashed = FALSE
    /\ call \in ScoreSets
    /\ ret = None

\* const avg = (...) / 9; averageScore: parseFloat(avg.toFixed(1))
ComputeAverage ==
    /\ ret = None
    /\ ret' = Some([op |-> "averageScore", scores |-> call, averageScore |-> AverageScore(call)])
    /\ UNCHANGED <<pages, appStatus, targetLanguage, apiKeyReady, globalError, refiningPage,
                   translationMode, procs, evals, imports, batchRuns, refinements, reEvals,
                   imgCounter, crashed, call>>

NextScores == ComputeAverage

SpecScores == InitScores /\ [][NextScores]_vars

\* --------------------------------------------------- startTranslation alone
\* SpecStart: the handler called directly, whatever the page shows.  The
\* values it closes over (pages, targetLanguage, apiKeyReady) are its inputs.
StartPage(k, status) ==
    IF status = ERROR
    THEN Spread(NewPage(k, 10 + k), [status |-> ERROR, errorMessage |-> Some(TranslateFailedText)])
    ELSE NewPage(k, 10 + k)

StartPageLists ==
    UNION {{[k \in 1..n |-> StartPage(k, st[k])] : st \in [1..n -> {PENDING, ERROR}]} : n \in 0..MaxPages}

InitStart ==
    /\ pages \in StartPageLists
    /\ appStatus = IDLE
    /\ targetLanguage \in {"", "Spanish"}
    /\ apiKeyReady \in BOOLEAN
    /\ globalError = None
    /\ refiningPage = None
    /\ translationMode \in TranslationMode
    /\ procs = <<>>
    /\ evals = <<>>
    /\ imports = IF pages = <<>> THEN 0 ELSE 1
    /\ batchRuns = 0
    /\ refinements = 0
    /\ reEvals = 0
    /\ imgCounter = 0
    /\ crashed = FALSE
    /\ call = None
    /\ ret = None

StartTranslationCall ==
    /\ batchRuns = 0
    /\ batchRuns' = batchRuns + 1
    /\ startTranslation
    /\ UNCHANGED <<targetLanguage, apiKeyReady, refiningPage, translationMode, evals, imports,
                   refinements, reEvals, imgCounter, crashed, call, ret>>

NextStart == StartTranslationCall

SpecStart == InitStart /\ [][NextStart]_vars

\* ------------------------------------------------------ aspect ratio snap
\* JavaScript numbers are IEEE 754 doubles.  A number below 32 is held as the
\* sequence of its binary digits, FloatIntBits of them before the point and
\* the others after it, most significant first; a double of this range that
\* is at least 2^-38 has all its 53 significant digits inside the sequence.
FloatWidth == 96
FloatIntBits == 5
FloatPrecision == 53
FloatDigits == 1..FloatWidth

RECURSIVE Pow2(_)
Pow2(n) == IF n = 0 THEN 1 ELSE 2 * Pow2(n - 1)

\* 2^n modulo m
RECURSIVE PowMod(_, _)
PowMod(n, m) == IF n < 8 THEN Pow2(n) % m ELSE (Pow2(8) * PowMod(n - 8, m)) % m

\* digit k of the quotient w / h, the digit of weight 2^(FloatIntBits - k)
QuotientDigit(w, h, k) ==
    IF k <= FloatIntBits THEN (w \div (h * Pow2(FloatIntBits - k))) % 2
    ELSE IF (w * PowMod(k - FloatIntBits, 2 * h)) % (2 * h) >= h THEN 1 ELSE 0

\* the division leaves a remainder after the last digit
QuotientInexact(w, h) == (w * PowMod(FloatWidth - FloatIntBits, h)) % h # 0

\* position of the leading 1, FloatWidth + 1 for zero
Leading(x) ==
    IF \A i \in FloatDigits : x[i] = 0 THEN FloatWidth + 1
    ELSE CHOOSE i \in FloatDigits : x[i] = 1 /\ \A j \in 1..(i - 1) : x[j] = 0

\* x plus one unit at position pos
AddUnit(x, pos) ==
    LET j == CHOOSE j \in 1..pos : x[j] = 0 /\ \A i \in (j + 1)..pos : x[i] = 1
    IN SubSeq([i \in FloatDigits |-> IF i = j THEN 1 ELSE IF i > j /\ i <= pos THEN 0 ELSE x[i]],
              1, FloatWidth)

\* round to nearest, ties to even, to FloatPrecision significant digits;
\* `inexact` tells that digits beyond the sequence were cut off
RoundToDouble(x, inexact) ==
    LET last == Leading(x) + FloatPrecision - 1
    IN IF last >= FloatWidth THEN x
       ELSE LET guard == x[last + 1]
                sticky == inexact \/ \E i \in (last + 2)..FloatWidth : x[i] = 1
                kept == SubSeq([i \in FloatDigits |-> IF i <= last THEN x[i] ELSE 0],
                               1, FloatWidth)
            IN IF guard = 1 /\ (sticky \/ x[last] = 1) THEN AddUnit(kept, last) ELSE kept

\* the double w / h
FloatDivide(w, h) ==
    RoundToDouble(SubSeq([k \in FloatDigits |-> QuotientDigit(w, h, k)], 1, FloatWidth),
                  QuotientInexact(w, h))

FloatLess(a, b) == \E i \in FloatDigits : a[i] < b[i] /\ \A j \in 1..(i - 1) : a[j] = b[j]

\* digit k of a - b needs a borrow: below it, a is less than b
Borrow(a, b, k) ==
    \E i \in (k + 1)..FloatWidth : a[i] < b[i] /\ \A j \in (k + 1)..(i - 1) : a[j] = b[j]

\* a - b for a >= b
Subtract(a, b) ==
    SubSeq([k \in FloatDigits |-> (a[k] - b[k] - (IF Borrow(a, b, k) THEN 1 ELSE 0) + 2) % 2],
           1, FloatWidth)

\* Math.abs(a - b)
FloatAbsDiff(a, b) ==
    RoundToDouble(IF FloatLess(a, b) THEN Subtract(b, a) ELSE Subtract(a, b), FALSE)

FloatZero == [k \in FloatDigits |-> 0]

\* x * 2^n, exact while no digit 1 leaves the sequence
ShiftDigits(x, n) ==
    SubSeq([k \in FloatDigits |-> IF k + n \in FloatDigits THEN x[k + n] ELSE 0], 1, FloatWidth)

\* digit k of a + b takes a carry from below
Carry(a, b, k) ==
    \E i \in (k + 1)..FloatWidth :
        a[i] = 1 /\ b[i] = 1 /\ \A j \in (k + 1)..(i - 1) : a[j] + b[j] = 1

AddDigits(a, b) ==
    SubSeq([k \in FloatDigits |-> (a[k] + b[k] + (IF Carry(a, b, k) THEN 1 ELSE 0)) % 2],
           1, FloatWidth)

\* a + b
FloatAdd(a, b) == RoundToDouble(AddDigits(a, b), FALSE)

\* the exact product: x shifted to each digit 1 of the other factor, summed
RECURSIVE SumShifted(_, _)
SumShifted(x, ones) ==
    IF ones = {} THEN FloatZero
    ELSE LET k == CHOOSE k \in ones : TRUE
         IN AddDigits(ShiftDigits(x, FloatIntBits - k), SumShifted(x, ones \ {k}))

\* a * b
FloatMultiply(a, b) == RoundToDouble(SumShifted(a, {k \in FloatDigits : b[k] = 1}), FALSE)

MaxDimension == 16     \* width and height of an image, reduced to lowest terms

SUPPORTED_ASPECT_RATIOS ==
    <<[label |-> "1:1", num |-> 1, den |-> 1],
      [label |-> "3:4", num |-> 3, den |-> 4],
      [label |-> "4:3", num |-> 4, den |-> 3],
      [label |-> "9:16", num |-> 9, den |-> 16],
      [label |-> "16:9", num |-> 16, den |-> 9]>>

\* the `value` of each entry, a double
RatioValue ==
    SubSeq([k \in DOMAIN SUPPORTED_ASPECT_RATIOS |->
               FloatDivide(SUPPORTED_ASPECT_RATIOS[k].num, SUPPORTED_ASPECT_RATIOS[k].den)],
           1, Len(SUPPORTED_ASPECT_RATIOS))

\* the for loop from entry k on, with bestMatch and minDiff so far
RECURSIVE ScanRatios(_, _, _, _)
ScanRatios(targetRatio, k, bestMatch, minDiff) ==
    IF k > Len(SUPPORTED_ASPECT_RATIOS) THEN bestMatch
    ELSE LET diff == FloatAbsDiff(targetRatio, RatioValue[k])
         IN IF FloatLess(diff, minDiff)
            THEN ScanRatios(targetRatio, k + 1, k, diff)
            ELSE ScanRatios(targetRatio, k + 1, bestMatch, minDiff)

\* the index of the entry whose label getBestAspectRatio returns
getBestAspectRatio(width, height) ==
    LET targetRatio == FloatDivide(width, height)
    IN ScanRatios(targetRatio, 1, 1, FloatAbsDiff(targetRatio, RatioValue[1]))

\* SpecRatio: getBestAspectRatio on the dimensions of an image.  The double
\* width / height depends on the fraction alone, 700 x 600 gives that of 7 x 6.
InitRatio ==
    /\ pages = <<>>
    /\ appStatus = IDLE
    /\ targetLanguage = "Spanish"
    /\ apiKeyReady = TRUE
    /\ globalError = None
    /\ refiningPage = None
    /\ translationMode = DIRECT
    /\ procs = <<>>
    /\ evals = <<>>
    /\ imports = 0
    /\ batchRuns = 0
    /\ refinements = 0
    /\ reEvals = 0
    /\ imgCounter = 0
    /\ crashed = FALSE
    /\ call \in [width : 1..MaxDimension, height : 1..MaxDimension]
    /\ ret = None

SnapAspectRatio ==
    /\ ret = None
    /\ ret' = Some([op |-> "getBestAspectRatio", width |-> call.width, height |-> call.height,
                    best |-> getBestAspectRatio(call.width, call.height)])
    /\ UNCHANGED <<pages, appStatus, targetLanguage, apiKeyReady, globalError, refiningPage,
                   translationMode, procs, evals, imports, batchRuns, refinements, reEvals,
                   imgCounter, crashed, call>>

NextRatio == SnapAspectRatio

SpecRatio == InitRatio /\ [][NextRatio]_vars

\* ------------------------------------------------------- cost as a double
\* calculateCost as the double it returns, in dollars
TOKENS_PER_PRICE == 1000000     \* the divisor 1_000_000
TENTHS == 10                    \* PRICE_PER_1M_INPUT and PRICE_PER_1M_OUTPUT are held in tenths

\* variant that charges a base fee of one dollar on every call
calculateCostDouble_BaseFee(input, output) ==
    FloatAdd(FloatDivide(1, 1),
             FloatAdd(FloatMultiply(FloatDivide(input, TOKENS_PER_PRICE), FloatDivide(PRICE_PER_1M_INPUT, TENTHS)),
                      FloatMultiply(FloatDivide(output, TOKENS_PER_PRICE), FloatDivide(PRICE_PER_1M_OUTPUT, TENTHS))))

\* ((input / 1_000_000) * PRICE_PER_1M_INPUT) + ((output / 1_000_000) * PRICE_PER_1M_OUTPUT)
calculateCostDouble(input, output) ==
    FloatAdd(FloatMultiply(FloatDivide(input, TOKENS_PER_PRICE), FloatDivide(PRICE_PER_1M_INPUT, TENTHS)),
             FloatMultiply(FloatDivide(output, TOKENS_PER_PRICE), FloatDivide(PRICE_PER_1M_OUTPUT, TENTHS)))

MaxTokens == 10        \* tokens of one kind in a call

\* SpecCost: calculateCost on token counts, with the calls it is compared to
InitCost ==
    /\ pages = <<>>
    /\ appStatus = IDLE
    /\ targetLanguage = "Spanish"
    /\ apiKeyReady = TRUE
    /\ globalError = None
    /\ refiningPage = None
    /\ translationMode = DIRECT
    /\ procs = <<>>
    /\ evals = <<>>
    /\ imports = 0
    /\ batchRuns = 0
    /\ refinements = 0
    /\ reEvals = 0
    /\ imgCounter = 0
    /\ crashed = FALSE
    /\ call \in [input : 0..MaxTokens, output : 0..MaxTokens]
    /\ ret = None

ComputeCost ==
    /\ ret = None
    /\ ret' = Some([op |-> "calculateCost", input |-> call.input, output |-> call.output,
                    cost |-> calculateCostDouble(call.input, call.output),
                    doubled |-> calculateCostDouble(2 * call.input, 2 * call.output),
                    inputAlone |-> calculateCostDouble(call.input, 0),
                    outputAlone |-> calculateCostDouble(0, call.output)])
    /\ UNCHANGED <<pages, appStatus, targetLanguage, apiKeyReady, globalError, refiningPage,
                   translationMode, procs, evals, imports, batchRuns, refinements, reEvals,
                   imgCounter, crashed, call>>

NextCost == ComputeCost

SpecCost == InitCost /\ [][NextCost]_vars

\* ================================================================ claims
Min(a, b) == IF a < b THEN a ELSE b

\* SpecService: the translateImage call has settled / the evaluation has
TranslateSettled == ret # None /\ ret[1].op = "translateImage"
EvaluateSettled == ret # None /\ ret[1].op = "evaluateTranslation"
AllTransient(fails) == \A j \in DOMAIN fails : fails[j].kind \in TransientKinds

C2_LastErrorStored ==
    (TranslateSettled /\ ~ret[1].settled.ok /\ ret[1].settled.calls = RETRIES + 1) =>
        LET last == ret[1].script.redraw[RETRIES + 1]
        IN /\ pages[1].status = ERROR
           /\ pages[1].errorMessage =
                 Some(IF last.message # <<>> THEN last.message ELSE TranslateFailedText)

\* C2 as stated: the errorMessage is the message of the last attempt's error,
\* whatever the error.
C2_AlwaysTheMessage ==
    (TranslateSettled /\ ~ret[1].settled.ok /\ ret[1].settled.calls = RETRIES + 1) =>
        /\ pages[1].status = ERROR
        /\ pages[1].errorMessage = Some(ret[1].script.redraw[RETRIES + 1].message)

\* C2 witness: the budget is exhausted by errors of which the last differs
\* from the first, and the page shows the last one's message.
C2_Witness ==
    /\ TranslateSettled
    /\ ~ret[1].settled.ok
    /\ ret[1].settled.calls = RETRIES + 1
    /\ ret[1].script.redraw[1] # ret[1].script.redraw[RETRIES + 1]
    /\ ret[1].script.redraw[RETRIES + 1].message # <<>>
    /\ pages[1].status = ERROR
    /\ pages[1].errorMessage = Some(ret[1].script.redraw[RETRIES + 1].message)

\* C3 as stated: when the first redraw call fails with an error that is
\* neither a rate-limit/quota error nor a transient server fault, translateImage
\* issues exactly one redraw call, makes no delay and rejects with that error.
C3_NonRetryableOnce ==
    (TranslateSettled /\ ret[1].script.redraw # <<>>
                      /\ ret[1].script.redraw[1].kind \notin TransientKinds) =>
        /\ ret[1].settled.calls = 1
        /\ ret[1].settled.delays = 0
        /\ ~ret[1].settled.ok
        /\ ret[1].settled.err = Some(ret[1].script.redraw[1])

IsZeroScoreFallback(ev) ==
    /\ \A d \in Dimensions : ev.scores[d] = 0
    /\ ev.averageScore = 0
    /\ ev.reason = "evaluation service failure"

\* C5: when the audit call fails on every attempt of its budget (a first
\* attempt and EVAL_RETRIES retries), the page's evaluation is the fallback
\* with every score 0, averageScore 0 and the unavailability reason, and the
\* page's status remains DONE.
C5_AuditFallback ==
    (EvaluateSettled /\ Len(ret[1].script) >= EVAL_RETRIES + 1) =>
        /\ pages[1].status = DONE
        /\ pages[1].evaluation # None
        /\ IsZeroScoreFallback(pages[1].evaluation[1])
        /\ ~pages[1].isEvaluating

\* C5 witness: four failed audit calls, the page DONE with the fallback.
C5_Witness ==
    /\ EvaluateSettled
    /\ Len(ret[1].script) = EVAL_RETRIES + 1
    /\ ret[1].settled.calls = EVAL_RETRIES + 1
    /\ pages[1].status = DONE
    /\ pages[1].evaluation = Some(FallbackResult)

\* C6: in TWO_STEP mode, when the extract call of the first attempt throws or
\* returns zero segments, the redraw call is still issued (every attempt
\* that extracts also redraws), and when that redraw succeeds translateImage
\* resolves and the page is DONE.
C6_ExtractionFallback ==
    (TranslateSettled /\ translationMode = TWO_STEP
                      /\ \/ ExtractAt(ret[1].script.extract, 1).thrown
                         \/ ExtractAt(ret[1].script.extract, 1).segments = <<>>) =>
        /\ ret[1].settled.calls >= 1
        /\ ret[1].settled.calls = ret[1].settled.extracts
        /\ ret[1].script.redraw = <<>> => (ret[1].settled.ok /\ pages[1].status = DONE)

\* C6 witness: the extract call threw, the redraw succeeded, the page is DONE
\* with the failure text as its extracted segments.
C6_Witness ==
    /\ TranslateSettled
    /\ translationMode = TWO_STEP
    /\ ExtractAt(ret[1].script.extract, 1).thrown
    /\ ret[1].settled.ok
    /\ ret[1].settled.calls = 1
    /\ pages[1].status = DONE
    /\ pages[1].extractedSegments = Some(ExtractionFailedText)

\* the page the activation procs[i] is translating, and the one its loop takes next
CurrentOf(proc) == Head(proc.queue).pageNumber
HasNext(proc) == proc.kind = "batch" /\ Tail(proc.queue) # <<>>

\* C4: in the step in which translateImage resolves for a page, the page
\* becomes DONE with isEvaluating = true and its audit is only fired, not
\* awaited: the same step leaves the audit in flight and, in a batch with
\* pages left, already has the next page TRANSLATING and awaited.
C4_DoneWhenRedrawSucceeds ==
    [][\A i \in DOMAIN procs :
          TranslateResolves(i) =>
              /\ \A k \in DOMAIN pages' :
                    pages'[k].pageNumber = CurrentOf(procs[i]) =>
                        pages'[k].status = DONE /\ pages'[k].isEvaluating
              /\ Len(evals') = Len(evals) + 1
              /\ evals'[Len(evals')].pageNumber = CurrentOf(procs[i])
              /\ HasNext(procs[i]) =>
                    /\ procs'[i].queue = Tail(procs[i].queue)
                    /\ \A k \in DOMAIN pages' :
                          pages'[k].pageNumber = CurrentOf(procs'[i]) =>
                              pages'[k].status = TRANSLATING]_vars

\* C4 witness: page 1 is DONE with its audit in flight while the batch is
\* already awaiting the translation of page 2.
C4_Witness ==
    /\ Len(pages) = 2
    /\ pages[1].status = DONE /\ pages[1].isEvaluating
    /\ \E j \in DOMAIN evals : evals[j].pageNumber = 1 /\ evals[j].originalImage = pages[1].originalImage
    /\ pages[2].status = TRANSLATING
    /\ \E i \in DOMAIN procs : procs[i].kind = "batch" /\ CurrentOf(procs[i]) = 2

\* C7 as stated: every page's ledger total is the sum over all records of
\* its extraction, translation and evaluation stages.
C7_LedgerFold ==
    \A k \in DOMAIN pages :
        pages[k].usage # None =>
            LET u == pages[k].usage[1]
            IN u.total = calculateTotalUsage(u.extraction, u.translation, u.evaluation)

AllowedStatusChanges ==
    {<<PENDING, TRANSLATING>>, <<TRANSLATING, DONE>>, <<TRANSLATING, ERROR>>,
     <<DONE, TRANSLATING>>, <<ERROR, TRANSLATING>>}

\* C8 as stated: every change of the status of a page is one of
\* PENDING->TRANSLATING, TRANSLATING->DONE, TRANSLATING->ERROR,
\* DONE->TRANSLATING, ERROR->TRANSLATING.
C8_StatusTransitions ==
    [][\A k \in DOMAIN pages :
          (/\ k \in DOMAIN pages'
           /\ pages'[k].pageNumber = pages[k].pageNumber
           /\ pages'[k].originalImage = pages[k].originalImage
           /\ pages'[k].status # pages[k].status) =>
              <<pages[k].status, pages'[k].status>> \in AllowedStatusChanges]_vars

\* C9 as stated: a translation completion, a translation failure or an
\* evaluation completion for page N changes only the record whose pageNumber
\* is N (the batch loop, going on, also sets the status of its next page).
C9_KeyedUpdates ==
    [][/\ \A j \in DOMAIN evals :
             EvaluateResolves(j) =>
                 \A k \in DOMAIN pages :
                     pages[k].pageNumber # evals[j].pageNumber => pages'[k] = pages[k]
       /\ \A i \in DOMAIN procs :
             (TranslateResolves(i) \/ TranslateRejects(i)) =>
                 \A k \in DOMAIN pages :
                     pages[k].pageNumber # CurrentOf(procs[i]) =>
                         \/ pages'[k] = pages[k]
                         \/ /\ HasNext(procs[i])
                            /\ pages[k].pageNumber = Head(Tail(procs[i].queue)).pageNumber
                            /\ pages'[k] = [pages[k] EXCEPT !.status = TRANSLATING]]_vars

\* the page the call was made for is gone: no record has its number and its source image
Stale(pn, img) ==
    ~\E k \in DOMAIN pages : pages[k].pageNumber = pn /\ pages[k].originalImage = img

\* C10 as stated: a result that arrives for page N after the collection was
\* reset is applied to no record, also when a new page numbered N exists.
C10_LateResultNoOp ==
    [][/\ \A i \in DOMAIN procs :
             (/\ TranslateResolves(i) \/ TranslateRejects(i)
              /\ Stale(CurrentOf(procs[i]), Head(procs[i].queue).originalImage)) =>
                 \A k \in DOMAIN pages :
                     pages[k].pageNumber = CurrentOf(procs[i]) => pages'[k] = pages[k]
       /\ \A j \in DOMAIN evals :
             (EvaluateResolves(j) /\ Stale(evals[j].pageNumber, evals[j].originalImage)) =>
                 \A k \in DOMAIN pages :
                     pages[k].pageNumber = evals[j].pageNumber => pages'[k] = pages[k]]_vars

\* the step is the continuation of the await of activation procs[i]
Settles(i) == TranslateResolves(i) \/ TranslateRejects(i)
InFlightBatch(ps) == Cardinality({i \in DOMAIN ps : ps[i].kind = "batch"})

\* C11: a run of startTranslation has one translateImage call in flight at a
\* time.  The calls in flight for batches are never more than the runs
\* started, a step starts at most one call, and the activation of a run
\* moves on to its next page only in the step in which the call it awaits
\* settles (resolved, or rejected after its retries), and then by one page.
C11_OneCallInFlight ==
    [][/\ InFlightBatch(procs') <= batchRuns'
       /\ Len(procs') <= Len(procs) + 1
       /\ (\A i \in DOMAIN procs : ~Settles(i)) =>
              /\ Len(procs') >= Len(procs)
              /\ SubSeq(procs', 1, Len(procs)) = procs
       /\ \A i \in DOMAIN procs :
             Settles(i) =>
                 procs' = IF HasNext(procs[i])
                          THEN SetAt(procs, i, [procs[i] EXCEPT !.queue = Tail(@)])
                          ELSE RemoveAt(procs, i)]_vars

\* C11 witness: the first page of a two-page batch failed after its retries,
\* and only then the run's single call is the one for page 2.
C11_Witness ==
    /\ Len(pages) = 2
    /\ batchRuns = 1
    /\ pages[1].status = ERROR
    /\ pages[2].status = TRANSLATING
    /\ Len(procs) = 1
    /\ procs[1].kind = "batch" /\ procs[1].queue = <<[pageNumber |-> 2, originalImage |-> pages[2].originalImage]>>

\* C12 as stated: when a refinement is confirmed for a page that is DONE and
\* holds an EvaluationResult, the feedback passed to translateImage is built
\* from the suggestions of the EvaluationResult the page holds at that moment
\* and from the user's literal text.
C12_FeedbackOfHeldEvaluation ==
    [][\A up \in UserPrompts :
          (refiningPage # None /\ HandleConfirmRefinement(up)) =>
              \A k \in DOMAIN pages :
                  (/\ pages[k].pageNumber = refiningPage[1].pageNumber
                   /\ pages[k].status = DONE
                   /\ pages[k].evaluation # None) =>
                      procs'[Len(procs')].feedback =
                          CombinedFeedback(pages[k].evaluation[1].suggestions, up)]_vars

\* C13 as stated: under every interleaving, and with every remote call
\* returning, a page whose isEvaluating flag is set eventually has it cleared
\* (or is discarded by a reset).
C13_FlagEventuallyCleared ==
    \A k \in 1..MaxPages :
        (k \in DOMAIN pages /\ pages[k].isEvaluating) ~> (k \notin DOMAIN pages \/ ~pages[k].isEvaluating)

IsEvaluationResult(ev) ==
    /\ DOMAIN ev = {"scores", "averageScore", "reason", "suggestions"}
    /\ DOMAIN ev.scores = Dimensions
    /\ \A d \in Dimensions : ev.scores[d] \in 0..10
    /\ ev.averageScore \in 0..100

C15_NoStaleErrorMessage ==
    \A k \in DOMAIN pages :
        pages[k].status \in {TRANSLATING, DONE} => pages[k].errorMessage = None

IsPrefix(a, b) == Len(a) <= Len(b) /\ SubSeq(b, 1, Len(a)) = a

\* C16 as stated: the usage ledger of a page is append-only.  In every step,
\* for a page that stays in the collection, each stage's sequence of records
\* before the step is a prefix of the stage's sequence after it.
C16_LedgerAppendOnly ==
    [][\A k \in DOMAIN pages :
          (/\ k \in DOMAIN pages'
           /\ pages'[k].pageNumber = pages[k].pageNumber
           /\ pages'[k].originalImage = pages[k].originalImage
           /\ pages[k].usage # None) =>
              /\ pages'[k].usage # None
              /\ IsPrefix(pages[k].usage[1].extraction, pages'[k].usage[1].extraction)
              /\ IsPrefix(pages[k].usage[1].translation, pages'[k].usage[1].translation)
              /\ IsPrefix(pages[k].usage[1].evaluation, pages'[k].usage[1].evaluation)]_vars

\* C17 as stated: when the first audit call fails with an error that is not
\* retryable (the response does not parse, the request is invalid),
\* evaluateTranslation issues exactly one audit call, makes no delay and
\* returns the zero-score fallback.
C17_AuditNonRetryableOnce ==
    (EvaluateSettled /\ ret[1].script # <<>>
                     /\ ret[1].script[1].kind \notin TransientKinds) =>
        /\ ret[1].settled.calls = 1
        /\ ret[1].settled.delays = 0
        /\ ret[1].settled.result = FallbackResult

\* the extract answer of the attempt whose redraw call succeeded
LastExtract == ExtractAt(ret[1].script.extract, ret[1].settled.calls)

\* C18 as stated: in TWO_STEP mode, when the extract call returns n >= 1
\* segments, the redraw instructions hold an entry for each of the n
\* segments, in extraction order, and the extractedSegments returned and
\* stored are those entries and have exactly n lines.
C18_OneLinePerSegment ==
    (TranslateSettled /\ translationMode = TWO_STEP /\ ret[1].settled.ok
                      /\ ~LastExtract.thrown /\ Len(LastExtract.segments) >= 1) =>
        /\ pages[1].promptUsed # None
        /\ pages[1].extractedSegments # None
        /\ LET m == pages[1].promptUsed[1].mapping
           IN /\ \A k \in DOMAIN LastExtract.segments : \E j \in DOMAIN m : m[j].seg = k
              /\ \A i, j \in DOMAIN m : i < j => m[i].seg <= m[j].seg
              /\ pages[1].extractedSegments[1] = m
              /\ Len(pages[1].extractedSegments[1]) = Len(LastExtract.segments)

\* C19: a translateImage call that succeeds returns exactly one
\* translation-stage usage record, that of the redraw call that succeeded,
\* and in DIRECT mode no extraction record and no mapping, the extract call
\* never being made; what it returns after K retried failures is what it
\* returns when the first redraw call succeeds on the same extraction.
C19_SuccessShape ==
    (TranslateSettled /\ ret[1].settled.ok) =>
        LET r == ret[1].settled
            direct == translateImage(translationMode, [extract |-> <<LastExtract>>, redraw |-> <<>>])
        IN /\ Len(r.translationUsage) = 1
           /\ r.translationUsage[1] = UsageStats(RedrawMeta)
           /\ translationMode = DIRECT =>
                 /\ r.extractionUsage = None
                 /\ r.extracts = 0
                 /\ r.mapping = <<>>
           /\ direct.calls = 1
           /\ Visible(r) = Visible(direct)

\* C19 witness: in DIRECT mode the redraw call fails twice with a rate limit
\* and then succeeds; three calls, two delays, one translation record.
C19_Witness ==
    /\ TranslateSettled
    /\ translationMode = DIRECT
    /\ ret[1].script.redraw = <<E429, E429>>
    /\ ret[1].settled.ok
    /\ ret[1].settled.calls = 3
    /\ ret[1].settled.delays = 2
    /\ ret[1].settled.extracts = 0
    /\ pages[1].status = DONE
    /\ pages[1].usage[1].translation = <<UsageStats(RedrawMeta)>>
    /\ pages[1].usage[1].extraction = <<>>

Abs(x) == IF x < 0 THEN -x ELSE x

Nearer(width, height, k, j) ==
    LET rk == SUPPORTED_ASPECT_RATIOS[k]
        rj == SUPPORTED_ASPECT_RATIOS[j]
    IN Abs(width * rk.den - rk.num * height) * rj.den < Abs(width * rj.den - rj.num * height) * rk.den

\* C21 as stated: getBestAspectRatio returns a supported ratio at minimal
\* absolute difference from width / height and, of the ratios at that minimal
\* difference, the one listed first.
C21_NearestEarliestListed ==
    (ret # None /\ ret[1].op = "getBestAspectRatio") =>
        /\ ret[1].best \in DOMAIN SUPPORTED_ASPECT_RATIOS
        /\ \A j \in DOMAIN SUPPORTED_ASPECT_RATIOS :
              /\ ~Nearer(ret[1].width, ret[1].height, j, ret[1].best)
              /\ j < ret[1].best => Nearer(ret[1].width, ret[1].height, ret[1].best, j)

\* C22: startTranslation called with no target language selected or without
\* a ready credential starts no remote call, leaves the pages and the
\* application status as they were, and records a global error message.
C22_FailsFast ==
    [][(StartTranslationCall /\ (targetLanguage = "" \/ ~apiKeyReady)) =>
          /\ procs' = procs /\ evals' = evals
          /\ pages' = pages
          /\ appStatus' = appStatus
          /\ globalError' # None]_vars

C22_Witness ==
    /\ batchRuns = 1 /\ pages # <<>> /\ procs = <<>>
    /\ targetLanguage # "" /\ ~apiKeyReady
    /\ globalError = Some(NoApiKeyText)

\* the pages after the completion callback of the pending evaluation ev
\* has run on ps with the outcome o, and whether its updater threw
AppliedEvaluation(ps, ev, o) ==
    LET evalUsage == EvalUsageResult(ev.previous, o.usage)
    IN CASE ev.origin = "batch" ->
              [crashed |-> FALSE, pages |-> MergeEvaluationBatch(ps, ev, o.result, evalUsage)]
         [] ev.origin = "retry" ->
              IF \E k \in DOMAIN ps : ps[k].usage = None
              THEN [crashed |-> TRUE, pages |-> ps]
              ELSE [crashed |-> FALSE, pages |-> MergeEvaluationRefinement(ps, ev, o.result, evalUsage)]
         [] OTHER ->
              [crashed |-> FALSE, pages |-> MergeEvaluationRetry(ps, ev, o.result, evalUsage)]

\* the pages after the activation proc has resumed on ps from its await
\* of translateImage, settled as `settled`
AppliedTranslation(ps, proc, settled) ==
    LET page == Head(proc.queue)
        rest == Tail(proc.queue)
        text == IF proc.kind = "batch" THEN TranslateFailedText ELSE RefineFailedText
        stored == IF settled.ok
                  THEN PatchPage(ps, page.pageNumber,
                                 StoreTranslation(TranslateResult(proc.mode, proc.feedback, proc.prevUsage,
                                                                  settled, imgCounter + 1)))
                  ELSE PatchPage(ps, page.pageNumber, StoreError(settled.err[1], text))
    IN IF proc.kind = "batch" /\ rest # <<>>
       THEN PatchPage(stored, Head(rest).pageNumber, [status |-> TRANSLATING])
       ELSE stored

PageOf(ps, pn) == ps[CHOOSE k \in DOMAIN ps : ps[k].pageNumber = pn]

\* the evaluation of page A and the translation of page B, applied in the two
\* orders, give the same pages, and both updates are in them
BothOrdersAgree(ev, proc, o, settled) ==
    LET pnB == Head(proc.queue).pageNumber
        evalAlone == AppliedEvaluation(pages, ev, o)
        transAlone == AppliedTranslation(pages, proc, settled)
        evalFirst == IF evalAlone.crashed THEN evalAlone
                     ELSE [crashed |-> FALSE, pages |-> AppliedTranslation(evalAlone.pages, proc, settled)]
        transFirst == AppliedEvaluation(transAlone, ev, o)
    IN /\ ~evalFirst.crashed /\ ~transFirst.crashed
       /\ evalFirst.pages = transFirst.pages
       /\ PageOf(transFirst.pages, pnB) = PageOf(transAlone, pnB)
       /\ PageOf(evalFirst.pages, ev.pageNumber).evaluation = PageOf(evalAlone.pages, ev.pageNumber).evaluation

\* C23 as stated: when the evaluation of a page A and the translation (or
\* its failure) of another page B complete, applying the two completions in
\* either order gives the same page collection, holding both updates.
C23_OrderIndependentMerge ==
    ~crashed =>
        \A j \in DOMAIN evals : \A i \in DOMAIN procs :
            (/\ evals[j].pageNumber # Head(procs[i].queue).pageNumber
             /\ \E k \in DOMAIN pages : pages[k].pageNumber = evals[j].pageNumber
             /\ \E k \in DOMAIN pages : pages[k].pageNumber = Head(procs[i].queue).pageNumber)
            => \A o \in EvaluateSettlements : \A settled \in TranslateSettlements[procs[i].mode] :
                  BothOrdersAgree(evals[j], procs[i], o, settled)

\* the page records there are: the page number and the original image of each
PageIdentities(ps) ==
    [k \in DOMAIN ps |-> [pageNumber |-> ps[k].pageNumber, originalImage |-> ps[k].originalImage]]

\* C24: no translation, retry or evaluation step adds or removes a page
\* record or changes a page's pageNumber or originalImage; the page records
\* there are change only on an import and on a reset.
C24_PagesFrame ==
    [][PageIdentities(pages') # PageIdentities(pages) =>
          (\E n \in 1..MaxPages : HandleConfirmImport(n)) \/ HandleReset]_vars

C24_Witness ==
    /\ imports = 1 /\ batchRuns = 1 /\ refinements = 1 /\ reEvals = 1
    /\ Len(pages) = MaxPages
    /\ \A k \in DOMAIN pages :
          /\ pages[k].pageNumber = k /\ pages[k].originalImage = 10 + k
          /\ pages[k].status = DONE /\ pages[k].evaluation # None

\* C25: calculateCost(2a, 2b) = 2 * calculateCost(a, b) and
\* calculateCost(a, b) = calculateCost(a, 0) + calculateCost(0, b), as doubles.
C25_CostLinear ==
    (ret # None /\ ret[1].op = "calculateCost") =>
        /\ ret[1].doubled = FloatMultiply(FloatDivide(2, 1), ret[1].cost)
        /\ ret[1].cost = FloatAdd(ret[1].inputAlone, ret[1].outputAlone)

C25_Witness ==
    /\ ret # None /\ ret[1].op = "calculateCost"
    /\ ret[1].input = 3 /\ ret[1].output = 7
    /\ ret[1].cost # FloatZero /\ ret[1].doubled # ret[1].cost
    /\ ret[1].inputAlone # FloatZero /\ ret[1].outputAlone # FloatZero

\* C26 as stated: in TWO_STEP mode an extract call that fails is itself
\* retried after the delay, and the pipeline falls back to direct mode only
\* once the attempts are used up.  (The catch block around the extract call
\* does not look at the error: the scripted failure stands for any, a rate
\* limit among them.)  When the first extract call fails and the redraw call
\* succeeds at once, a second extract call and a delay have been made.
C26_ExtractRetried ==
    (TranslateSettled /\ translationMode = TWO_STEP
                      /\ ExtractAt(ret[1].script.extract, 1).thrown
                      /\ ret[1].script.redraw = <<>>) =>
        /\ ret[1].settled.extracts >= 2
        /\ ret[1].settled.delays >= 1

\* C27 as stated: in TWO_STEP mode, when the extract call of the attempt that
\* succeeds has failed, the redraw instructions carry the direct-mode
\* directive and not the apply-mapping directive.
C27_DirectDirectiveOnFailure ==
    (TranslateSettled /\ translationMode = TWO_STEP /\ ret[1].settled.ok /\ LastExtract.thrown) =>
        /\ pages[1].promptUsed # None
        /\ pages[1].promptUsed[1].directive = "direct"

\* C28 as stated: in TWO_STEP mode, when the extract call returns zero
\* segments, the mapping string is empty and the redraw instructions do not
\* carry the apply-mapping directive with an empty mapping block.
C28_NoEmptyMappingBlock ==
    (TranslateSettled /\ translationMode = TWO_STEP /\ ret[1].settled.ok
                      /\ ~LastExtract.thrown /\ LastExtract.segments = <<>>) =>
        /\ ret[1].settled.mapping = <<>>
        /\ pages[1].promptUsed # None
        /\ ~(pages[1].promptUsed[1].directive = "mapping" /\ pages[1].promptUsed[1].mapping = <<>>)

\* C29 as stated: the extractedSegments of a translateImage result, and so
\* of the page, are present only when the extract call succeeded and
\* returned at least one segment.
C29_SegmentsOnlyWhenExtracted ==
    (TranslateSettled /\ ret[1].settled.ok /\ pages[1].extractedSegments # None) =>
        /\ translationMode = TWO_STEP
        /\ ~LastExtract.thrown
        /\ Len(LastExtract.segments) >= 1

\* C30: an audit is issued for a page only once a redraw of the page has
\* succeeded: the step in which translateImage resolves (batch or retry)
\* issues exactly one, for its page and the image just stored on it; the
\* step in which translateImage rejects issues none; and no other step
\* issues one but the re-evaluation the user asks for, of a page that holds
\* a translated image.
C30_AuditAfterRedraw ==
    [][/\ \A i \in DOMAIN procs :
             /\ TranslateRejects(i) => evals' = evals
             /\ TranslateResolves(i) =>
                    /\ evals' = Append(evals, evals'[Len(evals')])
                    /\ evals'[Len(evals')].pageNumber = CurrentOf(procs[i])
                    /\ evals'[Len(evals')].translatedImage = imgCounter'
                    /\ \A k \in DOMAIN pages' :
                          pages'[k].pageNumber = CurrentOf(procs[i]) =>
                              pages'[k].status = DONE /\ pages'[k].translatedImage = imgCounter'
       /\ Len(evals') > Len(evals) =>
             \/ \E i \in DOMAIN procs : TranslateResolves(i)
             \/ \E pn \in 1..MaxPages :
                   /\ HandleRetryEvaluation(pn)
                   /\ \E k \in DOMAIN pages : pages[k].pageNumber = pn /\ pages[k].translatedImage # 0]_vars

\* C30 witness: the batch failed on page 1 and succeeded on page 2; the one
\* audit issued is that of page 2.
C30_Witness ==
    /\ Len(pages) = 2 /\ batchRuns = 1 /\ refinements = 0 /\ reEvals = 0
    /\ pages[1].status = ERROR /\ pages[2].status = DONE
    /\ Len(evals) = 1
    /\ evals[1].pageNumber = 2 /\ evals[1].translatedImage = pages[2].translatedImage

\* C31 as stated: isEvaluating is a sub-flag of DONE; a page that is
\* PENDING, TRANSLATING or ERROR has isEvaluating false.
C31_EvaluatingOnlyWhenDone ==
    \A k \in DOMAIN pages :
        pages[k].status \in {PENDING, TRANSLATING, ERROR} => ~pages[k].isEvaluating

\* C32: a translation that is awaited (in a remote call or in a retry
\* delay) does not hold back the evaluation callbacks: whatever is awaited,
\* every pending evaluation can resolve and run its callback.
C32_EvaluationNotBlocked ==
    ~crashed => \A j \in DOMAIN evals : ENABLED EvaluateResolves(j)

\* C32 witness: page 2 is TRANSLATING, its call awaited by the batch, and
\* page 1 has its evaluation stored, isEvaluating false.
C32_Witness ==
    /\ Len(pages) = 2 /\ batchRuns = 1 /\ refinements = 0 /\ reEvals = 0
    /\ pages[1].status = DONE /\ pages[1].evaluation # None /\ ~pages[1].isEvaluating
    /\ pages[2].status = TRANSLATING
    /\ Len(procs) = 1 /\ CurrentOf(procs[1]) = 2
    /\ evals = <<>>

\* a translateImage call or an evaluateTranslation call is in flight for page pn
InFlightFor(pn) ==
    \/ \E i \in DOMAIN procs : CurrentOf(procs[i]) = pn
    \/ \E j \in DOMAIN evals : evals[j].pageNumber = pn

\* C33 as stated: once no translation and no evaluation call is in flight
\* for a page, the EvaluationResult the page holds, if any, is the one
\* computed for the page's current translatedImage.
C33_EvaluationOfCurrentImage ==
    ~crashed =>
        \A k \in DOMAIN pages :
            (pages[k].evaluation # None /\ ~InFlightFor(pages[k].pageNumber)) =>
                pages[k].evaluatedImage = pages[k].translatedImage

\* C34 as stated: for every page, isEvaluating is true exactly when an
\* evaluation call for that page is in flight.
C34_FlagIffEvaluationInFlight ==
    ~crashed =>
        \A k \in DOMAIN pages :
            pages[k].isEvaluating <=> \E j \in DOMAIN evals : evals[j].pageNumber = pages[k].pageNumber

\* C35 as stated: no page ever has two translation attempts in flight at the
\* same time, whatever the interleaving of startTranslation and retryPage.
C35_OneAttemptPerPage ==
    \A i, j \in DOMAIN procs :
        i # j => CurrentOf(procs[i]) # CurrentOf(procs[j])

\* C36: in TWO_STEP mode, within one translateImage invocation the number of
\* extract calls equals the number of redraw calls: every retry after a
\* redraw failure runs the extract call again before its redraw call.
C36_ExtractPerRedraw ==
    (TranslateSettled /\ translationMode = TWO_STEP) =>
        ret[1].settled.extracts = ret[1].settled.calls

\* C36 witness: the first redraw call failed with a retryable error, the
\* second attempt extracted again and its redraw succeeded.
C36_Witness ==
    /\ TranslateSettled
    /\ translationMode = TWO_STEP
    /\ Len(ret[1].script.redraw) = 1
    /\ ret[1].settled.ok
    /\ ret[1].settled.calls = 2
    /\ ret[1].settled.extracts = 2
    /\ ret[1].settled.delays = 1

\* C37: in every state reached from freshly ingested pages by translation,
\* retry and evaluation, a page whose status is DONE has a translatedImage
\* and a usage ledger.
C37_DoneHasImageAndUsage ==
    \A k \in DOMAIN pages :
        pages[k].status = DONE => (pages[k].translatedImage # 0 /\ pages[k].usage # None)

\* C37 witness: a page translated by the batch, retried through the
\* refinement dialog and evaluated is DONE with the image of the retry and a
\* ledger.
C37_Witness ==
    /\ ~crashed /\ refinements = 1 /\ procs = <<>> /\ evals = <<>>
    /\ \E k \in DOMAIN pages :
          /\ pages[k].status = DONE
          /\ pages[k].translatedImage = imgCounter
          /\ imgCounter >= 2
          /\ pages[k].usage # None
          /\ Len(pages[k].usage[1].translation) = 2
          /\ pages[k].evaluation # None

\* the page numbers an activation is still to call translateImage for
Awaited(proc) == {proc.queue[x].pageNumber : x \in DOMAIN proc.queue}

IsSuffix(q, r) == \E n \in 0..Len(r) : q = SubSeq(r, n + 1, Len(r))

\* C38: startTranslation issues translation calls only for pages whose status
\* was not DONE when it started (the list it captures holds exactly those
\* pages and is only ever consumed); a page that was DONE is not called for
\* and is left as it is, translatedImage, usage and evaluation included.
C38_SkipsDonePages ==
    [][ /\ batchRuns' = batchRuns + 1 =>
             LET done == {k \in DOMAIN pages : pages[k].status = DONE}
             IN /\ \A k \in done : pages'[k] = pages[k]
                /\ IF done = DOMAIN pages
                   THEN procs' = procs
                   ELSE /\ Len(procs') = Len(procs) + 1
                        /\ SubSeq(procs', 1, Len(procs)) = procs
                        /\ procs'[Len(procs')].kind = "batch"
                        /\ Awaited(procs'[Len(procs')]) =
                               {pages[k].pageNumber : k \in DOMAIN pages \ done}
        /\ batchRuns' = batchRuns =>
             \A i \in DOMAIN procs' :
                 procs'[i].kind = "batch" =>
                     \E j \in DOMAIN procs :
                         procs[j].kind = "batch" /\ IsSuffix(procs'[i].queue, procs[j].queue)
      ]_vars

\* C38 witness: a second startTranslation found page 1 DONE and page 2 failed;
\* it awaits page 2 alone and page 1 keeps its image, ledger and evaluation.
C38_Witness ==
    /\ batchRuns = 2 /\ imports = 1 /\ refinements = 0 /\ reEvals = 0
    /\ Len(pages) = 2
    /\ pages[1].status = DONE /\ pages[1].translatedImage = 1
    /\ pages[1].usage # None /\ pages[1].evaluation # None
    /\ pages[2].status = TRANSLATING /\ pages[2].errorMessage # None
    /\ Len(procs) = 1 /\ procs[1].kind = "batch"
    /\ Awaited(procs[1]) = {2}

\* a batch activation still has page pn ahead, after the page it awaits
Ahead(pn) ==
    \E i \in DOMAIN procs :
        procs[i].kind = "batch" /\ \E x \in 2..Len(procs[i].queue) : procs[i].queue[x].pageNumber = pn

BatchAwaits(pn) == \E i \in DOMAIN procs : procs[i].kind = "batch" /\ CurrentOf(procs[i]) = pn

\* C39 as stated: when every remote call eventually returns, every page that
\* enters TRANSLATING eventually reaches DONE or ERROR, a batch goes on to
\* each following page whatever became of the pages before it, and
\* startTranslation ends with the application status COMPLETED.
C39_BatchTerminates ==
    /\ \A k \in 1..MaxPages :
          (k \in DOMAIN pages /\ pages[k].status = TRANSLATING)
              ~> (k \notin DOMAIN pages \/ pages[k].status \in {DONE, ERROR})
    /\ \A pn \in 1..MaxPages : Ahead(pn) ~> BatchAwaits(pn)
    /\ (InFlightBatch(procs) > 0) ~> (appStatus = COMPLETED)

====
